---- MODULE Spec2Model ----
(***************************************************************************)
(* Student Registration System (src/script.js): the students array, its    *)
(* localStorage mirror, the edit session (editIndex), the validation       *)
(* error fields, the rendered table rows and the three form buttons, with  *)
(* one action per event handler of the page.                               *)
(*                                                                         *)
(* Strings are sequences of one-character strings, so that trim() and the  *)
(* regular expressions of the validation helpers are computed character by *)
(* character.  Array positions are the JavaScript ones (0-based); position *)
(* i of the array is element i + 1 of the TLA+ sequence.                   *)
(***************************************************************************)
EXTENDS Integers, Sequences, FiniteSets, TLC

VARIABLES
    students,   \* the value of `students` (script.js:34): a JavaScript value
    editIndex,  \* `editIndex` (script.js:35): null or an array position
    storage,    \* localStorage's entry under the key "students"
    errors,     \* textContent of the four error elements (script.js:20-23)
    rows,       \* the <tr> rows of tbody, each with the index its buttons hold
    hidden,     \* the `hidden` flag of submitBtn, updateBtn, cancelEditBtn
    quota,      \* environment: whether localStorage is limited, and the room
                \* it has for the text under the key
    editRec,    \* history: the record startEdit populated the form from
    last        \* history: the event handled last and how it ended

vars == <<students, editIndex, storage, errors, rows, hidden, quota, editRec, last>>

----------------------------------------------------------------------------
(* Bounds and the alphabet of the inputs *)

\* students never grows beyond MaxLen records (guard of the accepted add)
MaxLen == 3

Letters == {"A", "B", "a", "b", "c", "n", "o", "x"}
Digits == {"0", "1", "2", "3", "4", "5", "6", "7", "8", "9"}
Whitespace == {" "}

Empty == << >>
Ann == <<"A", "n", "n">>
BoPadded == <<" ", "B", "o", " ">>
Bo == <<"B", "o">>
NameDigit == <<"A", "1">>
Id1 == <<"1", "0", "0", "1">>
Id2 == <<"1", "0", "0", "2">>
Id3 == <<"1", "0", "0", "3">>
IdAlpha == <<"1", "x">>
Mail == <<"a", "@", "b", ".", "c", "o">>
MailNoAt == <<"a", "b">>
Phone == <<"5", "5", "5", "1", "2", "3", "4", "5", "6", "7">>
PhoneShort == <<"1", "2", "3">>
PhoneAlpha == <<"1", "2", "a">>

\* what the user may have typed into the four inputs when an event fires
Form(n, i, e, c) == [name |-> n, studentId |-> i, email |-> e, contact |-> c]

FormInputs ==
    { Form(Ann, i, Mail, Phone) : i \in {Id1, Id2, Id3} }
    \cup { Form(BoPadded, Id1, Mail, Phone),
           Form(Empty, Empty, Empty, Empty),
           Form(NameDigit, Id2, Mail, PhoneShort),
           Form(Ann, Id1, Mail, PhoneShort) }

----------------------------------------------------------------------------
(* JavaScript values *)

\* editIndex = null
null == -1

\* an array element: a record object, a hole of a sparse array, or null
Rec(n, i, e, c) == [k |-> "rec", name |-> n, studentId |-> i, email |-> e, contact |-> c]
Hole == [k |-> "hole", name |-> Empty, studentId |-> Empty, email |-> Empty, contact |-> Empty]
Null == [k |-> "null", name |-> Empty, studentId |-> Empty, email |-> Empty, contact |-> Empty]

\* a value JSON.parse can return: t is its type, v its elements when an array
JSArray(v) == [t |-> "array", v |-> v]
JSOther(t) == [t |-> t, v |-> << >>]
Falsy(x) == x.t \in {"null", "false", "zero", "emptystr"}

\* the records the initial collections are made of
ValidRecords == { Rec(Ann, i, Mail, Phone) : i \in {Id1, Id2, Id3} } \cup { Rec(Bo, Id1, Mail, Phone) }

----------------------------------------------------------------------------
(* Persistence: saveStudents, loadStudents (script.js:38-47) *)

\* the entry under the key: absent, a text that is not JSON, or the JSON text
\* of a value (kept as the value the text denotes)
Absent == [kind |-> "absent", val |-> JSOther("null")]
Garbage == [kind |-> "garbage", val |-> JSOther("null")]
JSONText(x) == [kind |-> "json", val |-> x]

\* JSON.stringify of one array element: a hole and null both print as null
StringifyElement(e) == IF e.k = "rec" THEN e ELSE Null

\* JSON.stringify(students)
JSONstringify(x) ==
    IF x.t = "array"
    THEN JSONText(JSArray([i \in 1..Len(x.v) |-> StringifyElement(x.v[i])]))
    ELSE JSONText(x)

\* JSON.parse(localStorage.getItem("students")): getItem gives null for an
\* absent key, which parses as null; a text that is not JSON throws
JSONparse(st) ==
    CASE st.kind = "absent" -> [threw |-> FALSE, val |-> JSOther("null")]
      [] st.kind = "garbage" -> [threw |-> TRUE, val |-> JSOther("null")]
      [] OTHER -> [threw |-> FALSE, val |-> st.val]

loadStudents(st) ==
    LET p == JSONparse(st)
    IN IF p.threw THEN JSArray(<< >>)
       ELSE IF Falsy(p.val) THEN JSArray(<< >>) ELSE p.val

saveStudents(x) == JSONstringify(x)

\* the length of the text JSON.stringify writes for an array of records:
\* brackets, commas, null, and {"name":"..","studentId":"..","email":"..",
\* "contact":".."} with its 50 characters of keys and punctuation
elementSize(e) ==
    IF e.k = "rec"
    THEN 50 + Len(e.name) + Len(e.studentId) + Len(e.email) + Len(e.contact)
    ELSE 4

RECURSIVE elementsSize(_)
elementsSize(v) ==
    IF v = << >> THEN 0 ELSE elementSize(Head(v)) + elementsSize(Tail(v))

textSize(st) ==
    IF st.kind # "json" THEN 0
    ELSE 2 + elementsSize(st.val.v) + (IF Len(st.val.v) > 1 THEN Len(st.val.v) - 1 ELSE 0)

\* the room localStorage has for the key: none is ever missing, or what the
\* stored text takes
Unlimited == [limited |-> FALSE, room |-> 0]
Full(st) == [limited |-> TRUE, room |-> textSize(st)]

\* localStorage.setItem("students", text) throws when the text does not fit
setItemSucceeds(q, text) == ~q.limited \/ textSize(text) <= q.room

----------------------------------------------------------------------------
(* Validation helpers (script.js:50-53) *)

RECURSIVE TrimLeft(_)
TrimLeft(str) ==
    IF str = << >> THEN << >>
    ELSE IF Head(str) \in Whitespace THEN TrimLeft(Tail(str)) ELSE str

RECURSIVE TrimRight(_)
TrimRight(str) ==
    IF str = << >> THEN << >>
    ELSE IF str[Len(str)] \in Whitespace
         THEN TrimRight(SubSeq(str, 1, Len(str) - 1)) ELSE str

\* String.prototype.trim
Trim(str) == TrimRight(TrimLeft(str))

\* /^[A-Za-z\s]+$/.test(str.trim())
isLettersOnly(str) ==
    LET t == Trim(str)
    IN Len(t) >= 1 /\ \A i \in 1..Len(t) : t[i] \in Letters \cup Whitespace

\* /^\d+$/.test(str)
isDigitsOnly(str) == Len(str) >= 1 /\ \A i \in 1..Len(str) : str[i] \in Digits

\* /^[^\s@]+@[^\s@]+\.[^\s@]+$/.test(str.trim())
isValidEmail(str) ==
    LET t == Trim(str)
    IN \E a \in 2..Len(t) : \E d \in (a + 2)..(Len(t) - 1) :
          /\ t[a] = "@"
          /\ t[d] = "."
          /\ \A i \in 1..Len(t) : i # a => t[i] \notin Whitespace \cup {"@"}

\* str.replace(/\D/g, "").length >= n
minDigits(str, n) == Cardinality({i \in 1..Len(str) : str[i] \in Digits}) >= n

MinContactDigits == 10

----------------------------------------------------------------------------
(* validateForm (script.js:78-122) *)

NoErrors == [name |-> "", studentId |-> "", email |-> "", contact |-> ""]

\* clearErrors (script.js:59-63)
clearErrors == NoErrors

\* setError (script.js:56-58)
setError(errs, el, msg) == [errs EXCEPT ![el] = msg]

\* students.findIndex((s, idx) => s.studentId === studentId && idx !== editIndex):
\* the position found, -1 for none, and whether the callback threw (reading
\* .studentId of a hole or of null); the scan stops at the first match
RECURSIVE findIndexFrom(_, _, _, _)
findIndexFrom(v, k, studentId, editIdx) ==
    IF k > Len(v) THEN [threw |-> FALSE, index |-> -1]
    ELSE IF v[k].k # "rec" THEN [threw |-> TRUE, index |-> -1]
    ELSE IF v[k].studentId = studentId /\ (k - 1) # editIdx
         THEN [threw |-> FALSE, index |-> k - 1]
         ELSE findIndexFrom(v, k + 1, studentId, editIdx)

findDuplicate(stu, studentId, editIdx) ==
    IF stu.t # "array" THEN [threw |-> TRUE, index |-> -1]
    ELSE findIndexFrom(stu.v, 1, studentId, editIdx)

\* the presence messages (script.js:85-88)
requiredErrors(p) ==
    [name |-> IF p.name = << >> THEN "Name is required." ELSE "",
     studentId |-> IF p.studentId = << >> THEN "Student ID is required." ELSE "",
     email |-> IF p.email = << >> THEN "Email is required." ELSE "",
     contact |-> IF p.contact = << >> THEN "Contact number is required." ELSE ""]

\* res: "true", "false", or "threw" (an uncaught TypeError); errors: the error
\* elements when validateForm returns or throws
validateForm(p, stu, editIdx) ==
    IF p.name = << >> \/ p.studentId = << >> \/ p.email = << >> \/ p.contact = << >>
    THEN [res |-> "false", errors |-> requiredErrors(p)]
    ELSE IF ~isLettersOnly(p.name)
    THEN [res |-> "false",
          errors |-> setError(clearErrors, "name", "Only letters and spaces are allowed.")]
    ELSE IF ~isDigitsOnly(p.studentId)
    THEN [res |-> "false",
          errors |-> setError(clearErrors, "studentId", "Student ID must contain digits only.")]
    ELSE IF ~isValidEmail(p.email)
    THEN [res |-> "false",
          errors |-> setError(clearErrors, "email", "Please enter a valid email address.")]
    ELSE IF ~isDigitsOnly(p.contact)
    THEN [res |-> "false",
          errors |-> setError(clearErrors, "contact", "Contact number must contain digits only.")]
    ELSE IF ~minDigits(p.contact, MinContactDigits)
    THEN [res |-> "false",
          errors |-> setError(clearErrors, "contact", "Contact number must have at least 10 digits.")]
    ELSE LET d == findDuplicate(stu, p.studentId, editIdx)
         IN IF d.threw THEN [res |-> "threw", errors |-> clearErrors]
            ELSE IF d.index # -1
            THEN [res |-> "false",
                  errors |-> setError(clearErrors, "studentId", "This Student ID already exists.")]
            ELSE [res |-> "true", errors |-> clearErrors]

\* the payload the submit and Update handlers build (script.js:227-232, 242-247)
payloadOf(f) == Rec(Trim(f.name), Trim(f.studentId), Trim(f.email), Trim(f.contact))

----------------------------------------------------------------------------
(* render (script.js:125-174) *)

\* students.forEach: a hole is skipped, null throws on s.name, and what is not
\* an array has no forEach; tbody keeps the rows appended before the throw
RECURSIVE renderFrom(_, _, _)
renderFrom(v, k, acc) ==
    IF k > Len(v) THEN [threw |-> FALSE, rows |-> acc]
    ELSE IF v[k].k = "hole" THEN renderFrom(v, k + 1, acc)
    ELSE IF v[k].k = "null" THEN [threw |-> TRUE, rows |-> acc]
    ELSE renderFrom(v, k + 1, Append(acc, [index |-> k - 1, rec |-> v[k]]))

render(stu) ==
    IF stu.t # "array" THEN [threw |-> TRUE, rows |-> << >>]
    ELSE renderFrom(stu.v, 1, << >>)

----------------------------------------------------------------------------
(* Array operations of the CRUD functions *)

\* unshift in place of push: the payload goes to the front
pushFront(v, x) == <<x>> \o v

\* students.push(payload)
push(v, x) == Append(v, x)

RECURSIVE holes(_)
holes(n) == IF n <= 0 THEN << >> ELSE <<Hole>> \o holes(n - 1)

\* students[index] = payload: a position at or past the end extends the
\* array, leaving holes between the old end and the new element
assignAt(v, index, x) ==
    IF index < Len(v) THEN [v EXCEPT ![index + 1] = x]
    ELSE v \o holes(index - Len(v)) \o <<x>>

\* splice with the count forgotten: students.splice(index) removes to the end
spliceRest(v, index) == SubSeq(v, 1, index)

\* students.splice(index, 1)
splice(v, index) ==
    IF index < Len(v)
    THEN SubSeq(v, 1, index) \o SubSeq(v, index + 2, Len(v))
    ELSE v

----------------------------------------------------------------------------
(* The page state the functions of script.js read and write, as one record; *)
(* threw tells that the function ended by an uncaught exception.            *)

Page == [students |-> students, editIndex |-> editIndex, storage |-> storage,
         errors |-> errors, rows |-> rows, hidden |-> hidden, quota |-> quota,
         threw |-> FALSE]

AddMode == [submitBtn |-> FALSE, updateBtn |-> TRUE, cancelEditBtn |-> TRUE]
EditMode == [submitBtn |-> TRUE, updateBtn |-> FALSE, cancelEditBtn |-> FALSE]

\* startEdit taking the record out of the array: students.splice(index, 1)[0]
startEditSplice(s, index) ==
    IF s.students.t = "array" /\ index < Len(s.students.v)
       /\ s.students.v[index + 1].k = "rec"
    THEN [s EXCEPT !.students = JSArray(splice(s.students.v, index)),
                   !.editIndex = index, !.hidden = EditMode, !.errors = clearErrors]
    ELSE [s EXCEPT !.editIndex = index, !.threw = TRUE]

\* startEdit (script.js:177-191): reading s.name of a missing element throws
\* after editIndex is set
startEdit(s, index) ==
    IF s.students.t = "array" /\ index < Len(s.students.v)
       /\ s.students.v[index + 1].k = "rec"
    THEN [s EXCEPT !.editIndex = index, !.hidden = EditMode, !.errors = clearErrors]
    ELSE [s EXCEPT !.editIndex = index, !.threw = TRUE]

\* resetEditState that leaves the buttons as they are
resetEditStateNoButtons(s) ==
    [s EXCEPT !.editIndex = null, !.errors = clearErrors]

\* resetEditState (script.js:193-200)
resetEditState(s) ==
    [s EXCEPT !.editIndex = null, !.hidden = AddMode, !.errors = clearErrors]

\* saveStudents(); render();  (the tail of the three CRUD functions): when
\* setItem throws, saveStudents throws and render is not reached
saveAndRender(s) ==
    LET r == render(s.students)
    IN IF ~setItemSucceeds(s.quota, saveStudents(s.students))
       THEN [s EXCEPT !.threw = TRUE]
       ELSE [s EXCEPT !.storage = saveStudents(s.students), !.rows = r.rows,
                      !.threw = r.threw]

\* addStudent (script.js:203-207): push throws on what is not an array
addStudent(s, payload) ==
    IF s.students.t # "array" THEN [s EXCEPT !.threw = TRUE]
    ELSE saveAndRender([s EXCEPT !.students = JSArray(push(s.students.v, payload))])

\* updateStudent (script.js:209-215)
updateStudent(s, payload) ==
    IF s.editIndex = null THEN s
    ELSE IF s.students.t # "array" THEN [s EXCEPT !.threw = TRUE]
    ELSE LET m == saveAndRender(
                    [s EXCEPT !.students = JSArray(assignAt(s.students.v, s.editIndex, payload))])
         IN IF m.threw THEN m ELSE resetEditState(m)

\* deleteStudent with the confirm() test left out
deleteStudentNoConfirm(s, index, confirmed) ==
    IF s.students.t # "array" THEN [s EXCEPT !.threw = TRUE]
    ELSE saveAndRender([s EXCEPT !.students = JSArray(splice(s.students.v, index))])

\* deleteStudent with the saveStudents() call left out
deleteStudentNoSave(s, index, confirmed) ==
    IF ~confirmed THEN s
    ELSE IF s.students.t # "array" THEN [s EXCEPT !.threw = TRUE]
    ELSE LET t == [s EXCEPT !.students = JSArray(splice(s.students.v, index))]
             r == render(t.students)
         IN [t EXCEPT !.rows = r.rows, !.threw = r.threw]

\* deleteStudent (script.js:217-222)
deleteStudent(s, index, confirmed) ==
    IF ~confirmed THEN s
    ELSE IF s.students.t # "array" THEN [s EXCEPT !.threw = TRUE]
    ELSE saveAndRender([s EXCEPT !.students = JSArray(splice(s.students.v, index))])

\* the submit handler (script.js:225-238)
submitHandler(s, f) ==
    LET payload == payloadOf(f)
        v == validateForm(payload, s.students, s.editIndex)
    IN IF v.res = "threw" THEN [s EXCEPT !.errors = v.errors, !.threw = TRUE]
       ELSE IF v.res = "false" THEN [s EXCEPT !.errors = v.errors]
       ELSE LET m == addStudent([s EXCEPT !.errors = v.errors], payload)
            IN IF m.threw THEN m ELSE [m EXCEPT !.errors = clearErrors]

\* the Update handler with the return after a failed validation left out
updateHandlerNoReturn(s, f) ==
    LET payload == payloadOf(f)
        v == validateForm(payload, s.students, s.editIndex)
    IN IF v.res = "threw" THEN [s EXCEPT !.errors = v.errors, !.threw = TRUE]
       ELSE updateStudent([s EXCEPT !.errors = v.errors], payload)

\* the click handler of updateBtn (script.js:241-250)
updateHandler(s, f) ==
    LET payload == payloadOf(f)
        v == validateForm(payload, s.students, s.editIndex)
    IN IF v.res = "threw" THEN [s EXCEPT !.errors = v.errors, !.threw = TRUE]
       ELSE IF v.res = "false" THEN [s EXCEPT !.errors = v.errors]
       ELSE updateStudent([s EXCEPT !.errors = v.errors], payload)

\* what the page is when the script has run (script.js:34-35, 259): the
\* buttons and the error elements are those of the document
pageLoad(st) ==
    LET stu == loadStudents(st)
        r == render(stu)
    IN [students |-> stu, editIndex |-> null, storage |-> st, errors |-> NoErrors,
        rows |-> r.rows, hidden |-> AddMode, threw |-> r.threw]

----------------------------------------------------------------------------
(* History *)

None == [k |-> "none", name |-> Empty, studentId |-> Empty, email |-> Empty, contact |-> Empty]

Event(op, outcome) == [op |-> op, outcome |-> outcome]

\* how a validated handler ended
Outcome(v, m) ==
    IF v.res = "false" THEN "rejected"
    ELSE IF v.res = "threw" \/ m.threw THEN "threw" ELSE "ok"

----------------------------------------------------------------------------
(* Actions: one per event *)

Commit(m) ==
    /\ students' = m.students
    /\ editIndex' = m.editIndex
    /\ storage' = m.storage
    /\ errors' = m.errors
    /\ rows' = m.rows
    /\ hidden' = m.hidden
    /\ quota' = quota

\* the form is submitted (the Add button, or Enter in a field)
SubmitForm(f) ==
    LET v == validateForm(payloadOf(f), students, editIndex)
        m == submitHandler(Page, f)
    IN /\ v.res = "true" => students.t = "array" /\ Len(students.v) < MaxLen
       /\ Commit(m)
       /\ editRec' = editRec
       /\ last' = Event("add", Outcome(v, m))

\* Update is clicked
UpdateClick(f) ==
    LET v == validateForm(payloadOf(f), students, editIndex)
        m == updateHandler(Page, f)
    IN /\ Commit(m)
       /\ editRec' = IF m.editIndex = null THEN None ELSE editRec
       /\ last' = Event("update",
                        IF v.res = "true" /\ editIndex = null THEN "noop" ELSE Outcome(v, m))

\* Cancel is clicked
CancelClick ==
    /\ Commit(resetEditState(Page))
    /\ editRec' = None
    /\ last' = Event("cancel", "ok")

\* the Edit button of row k is clicked
EditClick(k) ==
    LET index == rows[k].index
        m == startEdit(Page, index)
    IN /\ Commit(m)
       /\ editRec' = IF m.threw THEN editRec ELSE students.v[index + 1]
       /\ last' = Event("edit", IF m.threw THEN "threw" ELSE "ok")

\* the Delete button of row k is clicked and the dialog answered
DeleteClick(k, confirmed) ==
    LET index == rows[k].index
        m == deleteStudent(Page, index, confirmed)
    IN /\ Commit(m)
       /\ editRec' = editRec
       /\ last' = Event("delete",
                        IF ~confirmed THEN "declined" ELSE IF m.threw THEN "threw" ELSE "ok")

\* the page is reloaded: the script runs again on what localStorage holds
Reload ==
    LET m == pageLoad(storage)
    IN /\ Commit(m)
       /\ editRec' = None
       /\ last' = Event("load", IF m.threw THEN "threw" ELSE "ok")

----------------------------------------------------------------------------
(* Specifications *)

RECURSIVE SeqsUpTo(_, _)
SeqsUpTo(S, n) ==
    IF n = 0 THEN {<< >>}
    ELSE LET shorter == SeqsUpTo(S, n - 1)
         IN shorter \cup {Append(q, x) : q \in {r \in shorter : Len(r) = n - 1}, x \in S}

DistinctIds(v) ==
    \A i, j \in 1..Len(v) :
        i # j /\ v[i].k = "rec" /\ v[j].k = "rec" => v[i].studentId # v[j].studentId

\* what an earlier session of the page may have left under the key: nothing,
\* or a collection of well-formed records with pairwise distinct identifiers
SavedCollections ==
    {Absent} \cup {JSONstringify(JSArray(v)) :
                     v \in {q \in SeqsUpTo(ValidRecords, MaxLen) : DistinctIds(q)}}

InitWith(S, limited) ==
    \E st \in S :
        LET m == pageLoad(st)
        IN /\ students = m.students
           /\ editIndex = m.editIndex
           /\ storage = m.storage
           /\ errors = m.errors
           /\ rows = m.rows
           /\ hidden = m.hidden
           /\ quota = IF limited THEN Full(st) ELSE Unlimited
           /\ editRec = None
           /\ last = Event("load", IF m.threw THEN "threw" ELSE "ok")

InitFrom(S) == InitWith(S, FALSE)

Init == InitFrom(SavedCollections)

Next ==
    \/ \E f \in FormInputs : SubmitForm(f)
    \/ \E f \in FormInputs : UpdateClick(f)
    \/ CancelClick
    \/ \E k \in 1..Len(rows) : EditClick(k)
    \/ \E k \in 1..Len(rows) : \E confirmed \in BOOLEAN : DeleteClick(k, confirmed)
    \/ Reload

Spec == Init /\ [][Next]_vars

\* what localStorage may hold under the key when the page is opened, written
\* by anything: no entry, a text that is not JSON, the JSON text of a value
\* that is not an array, or of an array of records and nulls
StoredValues ==
    {Absent, Garbage}
    \cup {JSONText(JSOther(t)) :
            t \in {"null", "false", "true", "zero", "number", "emptystr", "string", "object"}}
    \cup {JSONText(JSArray(v)) : v \in SeqsUpTo(ValidRecords \cup {Null}, MaxLen)}

InitLoad == InitFrom(StoredValues)

NextLoad == Reload

\* the page opened, and reloaded, on any stored value
SpecLoad == InitLoad /\ [][NextLoad]_vars

\* the page used on a localStorage that has no room left: disabled for
\* writing (nothing stored, every setItem throws), or full (a setItem throws
\* when its text is longer than the one stored when the page was opened)
QuotaCollections ==
    {JSONstringify(JSArray(v)) :
       v \in {<<Rec(Bo, Id1, Mail, Phone)>>,
              <<Rec(Ann, Id1, Mail, Phone), Rec(Ann, Id2, Mail, Phone)>>}}

InitQuota == InitWith({Absent} \cup QuotaCollections, TRUE)

SpecQuota == InitQuota /\ [][Next]_vars

----------------------------------------------------------------------------
(* Properties *)

list == students.v

Positions == 0..(Len(list) - 1)

\* the format rules of validateForm alone (no collection to collide with)
wellFormed(p) == validateForm(p, JSArray(<< >>), null).res = "true"

DuplicateMsg == "This Student ID already exists."

\* C1: no two records of the in-memory collection have the same studentId,
\* in every reachable state (the code lets a submit handled during an edit
\* session insert the identifier of the record being edited)
C1_UniqueIds == DistinctIds(list)

\* C2: a submit whose candidate carries the studentId of a record of the
\* collection is rejected in every controller state: an accepted add never
\* leaves its record (the last one) sharing a studentId with an earlier one
C2_AddRejectsDuplicate ==
    (last.op = "add" /\ last.outcome = "ok") =>
        \A i \in 1..(Len(list) - 1) :
            list[i].k = "rec" => list[i].studentId # list[Len(list)].studentId

\* C3: after every completed add, commitEdit or confirmed delete, the value
\* under the persistence key is the serialization of the in-memory collection
C3_PersistedMirrorsMemory ==
    (last.op \in {"add", "update", "delete"} /\ last.outcome = "ok") =>
        storage = JSONstringify(students)

\* an accepted commit (and an accepted add) has happened and is mirrored
C3_Witness ==
    /\ last.op = "update" /\ last.outcome = "ok"
    /\ Len(list) >= 2
    /\ storage.kind = "json" /\ Len(storage.val.v) = Len(list)

\* C4: a step in which validation rejects the candidate (submit or Update)
\* changes nothing but the error messages: collection, persisted value, edit
\* session, rows and buttons are as before
C4_RejectChangesOnlyErrors ==
    [][(last'.op \in {"add", "update"} /\ last'.outcome = "rejected")
       => /\ students' = students
          /\ storage' = storage
          /\ editIndex' = editIndex
          /\ rows' = rows
          /\ hidden' = hidden
          /\ errors' # NoErrors]_vars

\* an Update was rejected during an edit session on a non-empty collection
C4_Witness ==
    /\ last.op = "update" /\ last.outcome = "rejected"
    /\ editIndex # null
    /\ errors.studentId = DuplicateMsg
    /\ Len(list) >= 2

\* C5: load returns a sequence, and the empty one for every stored value that
\* is not the serialization of an array
C5_LoadReturnsSequence ==
    /\ students.t = "array"
    /\ (storage.kind # "json" \/ storage.val.t # "array") => students.v = << >>

\* C6: in every Editing(target) state the target is a position of the
\* collection and holds the record startEdit selected (a delete at or before
\* the target ends the session)
C6_EditTargetValid ==
    editIndex # null => editIndex \in Positions /\ list[editIndex + 1] = editRec

\* C7: during an edit session started on record r, a well-formed candidate
\* with r's own studentId is accepted, and one with the studentId of another
\* record of the collection is rejected with the duplicate-ID error (stated
\* for the collections whose identifiers are pairwise distinct, where the two
\* halves cannot collide)
C7_CommitDuplicateCheck ==
    [][\A f \in FormInputs :
          (UpdateClick(f) /\ editIndex # null /\ wellFormed(payloadOf(f))
             /\ DistinctIds(list))
          => /\ payloadOf(f).studentId = editRec.studentId => last'.outcome = "ok"
             /\ (/\ payloadOf(f).studentId # editRec.studentId
                 /\ \E i \in 1..Len(list) :
                       list[i].k = "rec" /\ list[i].studentId = payloadOf(f).studentId)
                => last'.outcome = "rejected" /\ errors'.studentId = DuplicateMsg]_vars

\* C8: an accepted commitEdit overwrites one existing position in place:
\* same length, the candidate at the edit target, every other position as
\* before
C8_CommitInPlace ==
    [][\A f \in FormInputs :
          (UpdateClick(f) /\ editIndex # null /\ last'.outcome = "ok")
          => /\ Len(list') = Len(list)
             /\ editIndex \in Positions
             /\ list'[editIndex + 1] = payloadOf(f)
             /\ \A i \in 1..Len(list) : i # editIndex + 1 => list'[i] = list[i]]_vars

\* C9: every element of the persisted collection is a record whose four
\* fields are non-empty: no null, no hole, no empty field
C9_PersistedRecordsComplete ==
    storage.kind = "json" =>
        \A i \in 1..Len(storage.val.v) :
            LET r == storage.val.v[i]
            IN /\ r.k = "rec"
               /\ r.name # << >> /\ r.studentId # << >>
               /\ r.email # << >> /\ r.contact # << >>

\* C10: a confirmed delete at position i of a collection of length n leaves
\* length n - 1: the records before i where they were, the records after i
\* one position down
C10_DeleteRemovesOne ==
    [][\A k \in 1..Len(rows) :
          DeleteClick(k, TRUE)
          => LET i == rows[k].index
             IN /\ i \in Positions
                /\ Len(list') = Len(list) - 1
                /\ \A j \in 1..i : list'[j] = list[j]
                /\ \A j \in (i + 1)..(Len(list) - 1) : list'[j] = list[j + 1]]_vars

\* a record that was not the last one has been deleted
C10_Witness ==
    /\ last.op = "delete" /\ last.outcome = "ok"
    /\ Len(list) >= 2
    /\ \E j \in 1..Len(list) : rows[j].index = j - 1 /\ list[j].studentId = Id3

\* C11: an accepted submitAdd on a collection of length n leaves length
\* n + 1: the first n elements as before, in order, and the candidate last
C11_AddAppends ==
    [][(last'.op = "add" /\ last'.outcome = "ok")
       => /\ Len(list') = Len(list) + 1
          /\ \A i \in 1..Len(list) : list'[i] = list[i]
          /\ \A f \in FormInputs : SubmitForm(f) => list'[Len(list')] = payloadOf(f)]_vars

\* an add was accepted on a collection that already held two records
C11_Witness ==
    /\ last.op = "add" /\ last.outcome = "ok"
    /\ Len(list) = 3
    /\ list[1].studentId # list[3].studentId

\* the rules of the validation, in their order; "none" when none is violated
firstViolated(p, v, editIdx) ==
    IF p.name = << >> \/ p.studentId = << >> \/ p.email = << >> \/ p.contact = << >>
    THEN "required"
    ELSE IF ~isLettersOnly(p.name) THEN "nameFormat"
    ELSE IF ~isDigitsOnly(p.studentId) THEN "idFormat"
    ELSE IF ~isValidEmail(p.email) THEN "emailFormat"
    ELSE IF ~isDigitsOnly(p.contact) THEN "contactDigits"
    ELSE IF ~minDigits(p.contact, MinContactDigits) THEN "contactLength"
    ELSE IF \E i \in 1..Len(v) :
               v[i].k = "rec" /\ v[i].studentId = p.studentId /\ (i - 1) # editIdx
    THEN "duplicate"
    ELSE "none"

\* the error fields the claim expects for the first violated rule
expectedErrors(p, rule) ==
    CASE rule = "required" ->
           [name |-> IF p.name = << >> THEN "Name is required." ELSE "",
            studentId |-> IF p.studentId = << >> THEN "Student ID is required." ELSE "",
            email |-> IF p.email = << >> THEN "Email is required." ELSE "",
            contact |-> IF p.contact = << >> THEN "Contact number is required." ELSE ""]
      [] rule = "nameFormat" ->
           [NoErrors EXCEPT !.name = "Only letters and spaces are allowed."]
      [] rule = "idFormat" ->
           [NoErrors EXCEPT !.studentId = "Student ID must contain digits only."]
      [] rule = "emailFormat" ->
           [NoErrors EXCEPT !.email = "Please enter a valid email address."]
      [] rule = "contactDigits" ->
           [NoErrors EXCEPT !.contact = "Contact number must contain digits only."]
      [] rule = "contactLength" ->
           [NoErrors EXCEPT !.contact = "Contact number must have at least 10 digits."]
      [] rule = "duplicate" -> [NoErrors EXCEPT !.studentId = DuplicateMsg]
      [] OTHER -> NoErrors

\* C12: every validation (submit or Update) shows exactly the errors of the
\* first violated rule (a 'required' error per empty field, else the one
\* error of the first violated format or uniqueness rule), nothing of an
\* earlier call, and accepts iff no rule is violated
C12_FirstViolatedRule ==
    [][(last'.op \in {"add", "update"})
       => \A f \in FormInputs :
             (SubmitForm(f) \/ UpdateClick(f))
             => LET rule == firstViolated(payloadOf(f), list, editIndex)
                IN /\ errors' = expectedErrors(payloadOf(f), rule)
                   /\ (last'.outcome \in {"ok", "noop"}) <=> (rule = "none")]_vars

\* C13: every commitEdit that validation accepts and every cancelEdit ends in
\* Idle with the UI in add-mode, an edit session is ended by no event of the
\* page but these (a reload starts the script again), and a commit attempted
\* while Idle changes neither the collection nor the persisted value
C13_CommitOrCancelEndsSession ==
    [][/\ (last'.op = "update" /\ editIndex # null)
          => \A f \in FormInputs :
                (UpdateClick(f)
                   /\ validateForm(payloadOf(f), students, editIndex).res = "true")
                => editIndex' = null /\ hidden' = AddMode
       /\ last'.op = "cancel" => editIndex' = null /\ hidden' = AddMode
       /\ (editIndex # null /\ editIndex' = null)
             => last'.op \in {"update", "cancel", "load"}
       /\ (last'.op = "update" /\ editIndex = null)
             => students' = students /\ storage' = storage]_vars

\* C14: startEdit and cancelEdit leave the in-memory collection and the
\* persisted value exactly as they were
C14_EditCancelKeepStore ==
    [][(last'.op \in {"edit", "cancel"})
       => students' = students /\ storage' = storage]_vars

\* an edit session was started on the second of two records
C14_Witness ==
    /\ last.op = "edit" /\ last.outcome = "ok"
    /\ editIndex = 1 /\ Len(list) >= 2 /\ list[2] = editRec
    /\ storage.kind = "json"

\* C15: when the storage write fails during an add, commitEdit or delete,
\* the handler does not end by an uncaught error, the list is rendered again
\* from the in-memory collection, and an accepted commitEdit ends in Idle
C15_WriteFailureTolerated ==
    (last.op \in {"add", "update", "delete"}
       /\ last.outcome \notin {"rejected", "declined", "noop"})
    => /\ last.outcome = "ok"
       /\ rows = render(students).rows
       /\ last.op = "update" => editIndex = null

\* C16: a page reload leaves the in-memory collection as it was just before,
\* same records in the same order, and the controller in Idle
C16_ReloadKeepsCollection ==
    [][(last'.op = "load") => students' = students /\ editIndex' = null]_vars

\* C17: a delete whose confirmation is declined changes nothing: collection,
\* persisted value, rendered list and edit session are as before
C17_DeclinedDeleteNoChange ==
    [][(last'.op = "delete" /\ last'.outcome = "declined")
       => /\ students' = students
          /\ storage' = storage
          /\ rows' = rows
          /\ editIndex' = editIndex
          /\ editRec' = editRec
          /\ hidden' = hidden
          /\ errors' = errors]_vars

\* a delete was declined during an edit session
C17_Witness ==
    /\ last.op = "delete" /\ last.outcome = "declined"
    /\ editIndex # null
    /\ Len(rows) >= 2

C19_RecordsChangeOnlyWhenOpened ==
    [][/\ last'.op # "delete"
          => \A i \in 1..Len(list) :
                (list[i].k = "rec" /\ (i > Len(list') \/ list'[i] # list[i]))
                => last'.op = "update" /\ editIndex = i - 1 /\ editRec = list[i]
       /\ last'.op = "update"
          => \A i \in 1..Len(list') :
                (list'[i].k = "rec" /\ (i > Len(list) \/ list[i] # list'[i]))
                => i <= Len(list) /\ list[i] = editRec
       /\ last'.op = "delete"
          => \A k \in 1..Len(rows) : \A confirmed \in BOOLEAN :
                DeleteClick(k, confirmed)
                => \A i \in 1..Len(list) :
                      (list[i].k = "rec" /\ (~confirmed \/ i # rows[k].index + 1))
                      => \E j \in {i - 1, i} \cap (1..Len(list')) :
                            list'[j] = list[i]]_vars

\* C20: at every event boundary the rendered list equals the in-memory
\* collection: one row per position 0..length-1, in order, row k showing the
\* record at position k and its Edit and Delete bound to position k
C20_RowsMirrorCollection ==
    /\ Len(rows) = Len(list)
    /\ \A k \in 1..Len(rows) : rows[k].index = k - 1 /\ rows[k].rec = list[k]

====
